---- MODULE Spec2Model ----
(***************************************************************************)
(* imflib: the Asset Map (assetmap.py) and Packing List (pkl.py) parsers.  *)
(*                                                                         *)
(* Python values are tagged records: None, str (a tuple of characters),    *)
(* int, list, uuid.UUID, xml.etree Element, the dataclass instances, and a *)
(* raised exception (an "Error" value that every caller propagates).       *)
(***************************************************************************)
EXTENDS Integers, Sequences, FiniteSets, TLC

VARIABLES
    xml,    \* the XML element handed to the last from_xml call
    obj,    \* what that call returned (or the exception it raised)
    op,     \* the last operation called
    arg,    \* the argument of the last get_asset call
    ret     \* the value the last operation returned

vars == <<xml, obj, op, arg, ret>>

(***************************************************************************)
(* Bounds of the input documents.                                          *)
(***************************************************************************)
MaxChunks == 2
MaxAssets == 2

(***************************************************************************)
(* Python values.                                                          *)
(***************************************************************************)
None == [t |-> "None"]
Str(s) == [t |-> "str", v |-> s]
IntV(n) == [t |-> "int", v |-> n]
List(s) == [t |-> "list", v |-> s]
Raise(e) == [t |-> "Error", exc |-> e]

IsNone(x) == x.t = "None"
IsErr(x) == x.t = "Error"

\* The exception raised first among statements evaluated in order, or None.
RECURSIVE FirstErr(_)
FirstErr(s) ==
    IF Len(s) = 0 THEN None
    ELSE IF IsErr(Head(s)) THEN Head(s) ELSE FirstErr(Tail(s))

(***************************************************************************)
(* xml.etree.ElementTree: an Element has a tag, a text (str or None), an   *)
(* attribute list and its children in document order.  The namespace map   *)
(* is the document's own, so lookups go by local tag name.                 *)
(***************************************************************************)
Element(tag, txt, attrib, children) ==
    [t |-> "Element", tag |-> tag, text |-> txt, attrib |-> attrib,
     children |-> children]

\* xml.findall(tag, ns): the children with that tag, in document order.
findall(e, tag) ==
    IF IsNone(e) THEN Raise("AttributeError")
    ELSE List(SelectSeq(e.children, LAMBDA c : c.tag = tag))

\* xml.find(tag, ns): the first child with that tag, or None.
find(e, tag) ==
    IF IsNone(e) THEN Raise("AttributeError")
    ELSE LET m == SelectSeq(e.children, LAMBDA c : c.tag = tag)
         IN  IF Len(m) = 0 THEN None ELSE Head(m)

\* X.text, where X is what find returned.
text(e) ==
    IF IsErr(e) THEN e
    ELSE IF IsNone(e) THEN Raise("AttributeError") ELSE e.text

\* X.attrib.get(name)
attrib_get(e, name) ==
    IF IsErr(e) THEN e
    ELSE IF IsNone(e) THEN Raise("AttributeError")
    ELSE LET m == SelectSeq(e.attrib, LAMBDA a : a[1] = name)
         IN  IF Len(m) = 0 THEN None ELSE Head(m)[2]

(***************************************************************************)
(* Python builtins the parsers call.                                       *)
(***************************************************************************)
Digits == <<"0","1","2","3","4","5","6","7","8","9">>
IsDigit(c) == \E i \in 1..Len(Digits) : Digits[i] = c
DigitVal(c) == (CHOOSE i \in 1..Len(Digits) : Digits[i] = c) - 1

RECURSIVE Nat10(_)
Nat10(s) ==
    IF Len(s) = 0 THEN 0
    ELSE Nat10(SubSeq(s, 1, Len(s) - 1)) * 10 + DigitVal(s[Len(s)])

\* int(x): an optional sign and decimal digits (the inputs carry neither
\* surrounding whitespace nor '_' separators); None is a TypeError.
int(x) ==
    IF IsErr(x) THEN x
    ELSE IF x.t # "str" THEN Raise("TypeError")
    ELSE LET s == x.v
             signed == Len(s) > 0 /\ s[1] \in {"+", "-"}
             body == IF signed THEN Tail(s) ELSE s
         IN  IF Len(body) = 0 \/ \E i \in 1..Len(body) : ~IsDigit(body[i])
             THEN Raise("ValueError")
             ELSE IntV(IF signed /\ s[1] = "-" THEN 0 - Nat10(body) ELSE Nat10(body))

BoolV(b) == [t |-> "bool", v |-> b]

\* a == b: values of different types are unequal; a UUID equals only a UUID
\* with the same int.
eq(a, b) == a.t = b.t /\ a = b

UpperCase ==
    <<"A","B","C","D","E","F","G","H","I","J","K","L","M",
      "N","O","P","Q","R","S","T","U","V","W","X","Y","Z">>
LowerCase ==
    <<"a","b","c","d","e","f","g","h","i","j","k","l","m",
      "n","o","p","q","r","s","t","u","v","w","x","y","z">>
lower_char(c) ==
    IF \E i \in 1..Len(UpperCase) : UpperCase[i] = c
    THEN LowerCase[CHOOSE i \in 1..Len(UpperCase) : UpperCase[i] = c]
    ELSE c

\* x.lower(): only a str has the method.
lower(x) ==
    IF IsErr(x) THEN x
    ELSE IF x.t # "str" THEN Raise("AttributeError")
    ELSE Str([i \in 1..Len(x.v) |-> lower_char(x.v[i])])

\* x.split(sep) for a one-character separator: the pieces between the
\* separators, in order (always at least one piece).
RECURSIVE split_loop(_, _, _, _)
split_loop(s, sep, piece, pieces) ==
    IF Len(s) = 0 THEN Append(pieces, Str(piece))
    ELSE IF Head(s) = sep THEN split_loop(Tail(s), sep, <<>>, Append(pieces, Str(piece)))
    ELSE split_loop(Tail(s), sep, Append(piece, Head(s)), pieces)

split(x, sep) ==
    IF IsErr(x) THEN x
    ELSE IF x.t # "str" THEN Raise("AttributeError")
    ELSE List(split_loop(x.v, sep, <<>>, <<>>))

\* s.replace(old, ""): every occurrence of old removed, left to right.
RECURSIVE remove_all(_, _)
remove_all(s, old) ==
    IF Len(s) = 0 THEN s
    ELSE IF Len(s) >= Len(old) /\ SubSeq(s, 1, Len(old)) = old
    THEN remove_all(SubSeq(s, Len(old) + 1, Len(s)), old)
    ELSE <<Head(s)>> \o remove_all(Tail(s), old)

\* s.strip(chars)
RECURSIVE lstrip(_, _)
lstrip(s, chars) ==
    IF Len(s) > 0 /\ Head(s) \in chars THEN lstrip(Tail(s), chars) ELSE s
RECURSIVE rstrip(_, _)
rstrip(s, chars) ==
    IF Len(s) > 0 /\ s[Len(s)] \in chars
    THEN rstrip(SubSeq(s, 1, Len(s) - 1), chars) ELSE s
strip(s, chars) == rstrip(lstrip(s, chars), chars)

HexDigits == <<"0","1","2","3","4","5","6","7","8","9","a","b","c","d","e","f">>
IsHex(c) == \E i \in 1..Len(HexDigits) : HexDigits[i] = lower_char(c)
HexVal(c) == (CHOOSE i \in 1..Len(HexDigits) : HexDigits[i] = lower_char(c)) - 1

\* uuid.UUID(hex): "urn:", "uuid:", braces and hyphens are dropped, 32
\* hexadecimal digits must remain, and the UUID is their 128-bit value
\* (kept as its 32 base-16 digits).  None is a TypeError, and only a str
\* has the replace method.
UUID(x) ==
    IF IsErr(x) THEN x
    ELSE IF IsNone(x) THEN Raise("TypeError")
    ELSE IF x.t # "str" THEN Raise("AttributeError")
    ELSE LET h1 == remove_all(remove_all(x.v, <<"u","r","n",":">>), <<"u","u","i","d",":">>)
             hex == remove_all(strip(h1, {"{", "}"}), <<"-">>)
         IN  IF Len(hex) # 32 \/ \E i \in 1..Len(hex) : ~IsHex(hex[i])
             THEN Raise("ValueError")
             ELSE [t |-> "UUID", int |-> [i \in 1..Len(hex) |-> HexVal(hex[i])]]

\* sum(iterable) over a list of int
RECURSIVE sum(_)
sum(s) == IF Len(s) = 0 THEN 0 ELSE Head(s) + sum(Tail(s))

(***************************************************************************)
(* imflib shared decoders (imflib/__init__.py).                            *)
(***************************************************************************)
\* xsd_optional_integer(xml, default): the parsed integer, or the default
\* when the element is absent.
xsd_optional_integer(e, default) ==
    IF IsErr(e) THEN e
    ELSE IF IsNone(e) THEN IntV(default) ELSE int(e.text)

\* xsd_optional_string(xml): the element's text, or the empty string.
xsd_optional_string(e) ==
    IF IsErr(e) THEN e
    ELSE IF IsNone(e) THEN Str(<<>>)
    ELSE IF IsNone(e.text) THEN Str(<<>>) ELSE e.text

AllDigits(s) == \A i \in 1..Len(s) : IsDigit(s[i])

\* The zone of an xs:dateTime: absent, "Z", or (+|-)hh:mm, in minutes.
xsd_zone(z) ==
    IF Len(z) = 0 THEN None
    ELSE IF z = <<"Z">> THEN IntV(0)
    ELSE IF /\ Len(z) = 6
            /\ z[1] \in {"+", "-"}
            /\ z[4] = ":"
            /\ AllDigits(SubSeq(z, 2, 3))
            /\ AllDigits(SubSeq(z, 5, 6))
    THEN LET m == Nat10(SubSeq(z, 2, 3)) * 60 + Nat10(SubSeq(z, 5, 6))
         IN  IntV(IF z[1] = "-" THEN 0 - m ELSE m)
    ELSE Raise("MalformedTimestamp")

\* xsd_datetime_to_datetime(text): an xs:dateTime lexical value
\* ['-']yyyy-mm-ddThh:mm:ss['.'s+][zone] as a timezone-aware instant.
xsd_datetime_to_datetime(x) ==
    IF IsErr(x) THEN x
    ELSE IF x.t # "str" THEN Raise("MalformedTimestamp")
    ELSE LET neg == Len(x.v) > 0 /\ x.v[1] = "-"
             s == IF neg THEN Tail(x.v) ELSE x.v
             n == Len(s)
             fracEnd == IF n > 19 /\ s[20] = "."
                        THEN CHOOSE k \in 20..n :
                                /\ AllDigits(SubSeq(s, 21, k))
                                /\ (k = n \/ ~IsDigit(s[k + 1]))
                        ELSE 19
             zone == xsd_zone(SubSeq(s, fracEnd + 1, n))
         IN  IF \/ n < 19
                \/ ~AllDigits(SubSeq(s, 1, 4)) \/ s[5] # "-"
                \/ ~AllDigits(SubSeq(s, 6, 7)) \/ s[8] # "-"
                \/ ~AllDigits(SubSeq(s, 9, 10)) \/ s[11] # "T"
                \/ ~AllDigits(SubSeq(s, 12, 13)) \/ s[14] # ":"
                \/ ~AllDigits(SubSeq(s, 15, 16)) \/ s[17] # ":"
                \/ ~AllDigits(SubSeq(s, 18, 19))
                \/ fracEnd = 20
             THEN Raise("MalformedTimestamp")
             ELSE IF IsErr(zone) THEN zone
             ELSE [t |-> "datetime",
                   year |-> IF neg THEN 0 - Nat10(SubSeq(s, 1, 4))
                            ELSE Nat10(SubSeq(s, 1, 4)),
                   month |-> Nat10(SubSeq(s, 6, 7)),
                   day |-> Nat10(SubSeq(s, 9, 10)),
                   hour |-> Nat10(SubSeq(s, 12, 13)),
                   minute |-> Nat10(SubSeq(s, 15, 16)),
                   second |-> Nat10(SubSeq(s, 18, 19)),
                   fraction |-> SubSeq(s, 21, fracEnd),
                   tzinfo |-> zone]

\* UserText.from_xml(xml): the text and its optional language tag.
UserText_from_xml(e) ==
    IF IsErr(e) THEN e
    ELSE IF IsNone(e) THEN Raise("AttributeError")
    ELSE [t |-> "UserText", text |-> e.text, language |-> attrib_get(e, "language")]

\* xsd_optional_usertext(xml): absent when the element is, malformed when
\* the element has no text.
xsd_optional_usertext(e) ==
    IF IsErr(e) THEN e
    ELSE IF IsNone(e) THEN None
    ELSE IF IsNone(e.text) THEN Raise("MalformedUserText")
    ELSE UserText_from_xml(e)

\* xsd_optional_security(xml_signer, xml_signature): a block only when both
\* elements are present.
xsd_optional_security(xml_signer, xml_signature) ==
    IF IsErr(xml_signer) THEN xml_signer
    ELSE IF IsErr(xml_signature) THEN xml_signature
    ELSE IF IsNone(xml_signer) \/ IsNone(xml_signature) THEN None
    ELSE [t |-> "Security", signer |-> xml_signer, signature |-> xml_signature]

(***************************************************************************)
(* assetmap.py: Chunk                                                      *)
(***************************************************************************)
Chunk(path, volume_index, offset, size) ==
    [t |-> "Chunk", file_path |-> path, volume_index |-> volume_index,
     offset |-> offset, size |-> size]

\* The loop body with 0 as the default of VolumeIndex.
Chunk_from_xml_body_vi0(chunk) ==
    LET path == text(find(chunk, "Path"))
        volume_index == xsd_optional_integer(find(chunk, "VolumeIndex"), 0)
        offset == xsd_optional_integer(find(chunk, "Offset"), 0)
        size == xsd_optional_integer(find(chunk, "Length"), 0)
        err == FirstErr(<<path, volume_index, offset, size>>)
    IN  IF IsErr(err) THEN err ELSE Chunk(path, volume_index, offset, size)

\* One pass of the loop body of Chunk.from_xml.
Chunk_from_xml_body(chunk) ==
    LET path == text(find(chunk, "Path"))
        volume_index == xsd_optional_integer(find(chunk, "VolumeIndex"), 1)
        offset == xsd_optional_integer(find(chunk, "Offset"), 0)
        size == xsd_optional_integer(find(chunk, "Length"), 0)
        err == FirstErr(<<path, volume_index, offset, size>>)
    IN  IF IsErr(err) THEN err ELSE Chunk(path, volume_index, offset, size)

RECURSIVE Chunk_from_xml_loop(_, _)
Chunk_from_xml_loop(elems, chunks) ==
    IF Len(elems) = 0 THEN List(chunks)
    ELSE LET c == Chunk_from_xml_body(Head(elems))
         IN  IF IsErr(c) THEN c
             ELSE Chunk_from_xml_loop(Tail(elems), Append(chunks, c))

\* Chunk.from_xml(xml, ns)
Chunk_from_xml(e) ==
    LET found == findall(e, "Chunk")
    IN  IF IsErr(found) THEN found ELSE Chunk_from_xml_loop(found.v, <<>>)

(***************************************************************************)
(* assetmap.py: Asset                                                      *)
(***************************************************************************)
Asset(id, is_packing_list, chunks) ==
    [t |-> "Asset", id |-> id, is_packing_list |-> is_packing_list,
     chunks |-> chunks]

\* (asset.find("PackingList") is not None) and
\*     (asset.find("PackingList").text.lower() == "true")
Asset_is_packing_list(asset) ==
    LET pl == find(asset, "PackingList")
    IN  IF IsErr(pl) THEN pl
        ELSE IF IsNone(pl) THEN BoolV(FALSE)
        ELSE LET low == lower(pl.text)
             IN  IF IsErr(low) THEN low ELSE BoolV(eq(low, Str(<<"t","r","u","e">>)))

\* One pass of the loop body of Asset.from_xml.
Asset_from_xml_body(asset) ==
    LET id == text(find(asset, "Id"))
        is_packing_list == Asset_is_packing_list(asset)
        chunks == Chunk_from_xml(find(asset, "ChunkList"))
        err == FirstErr(<<id, is_packing_list, chunks>>)
    IN  IF IsErr(err) THEN err ELSE Asset(id, is_packing_list, chunks)

RECURSIVE Asset_from_xml_loop(_, _)
Asset_from_xml_loop(elems, assets) ==
    IF Len(elems) = 0 THEN List(assets)
    ELSE LET a == Asset_from_xml_body(Head(elems))
         IN  IF IsErr(a) THEN a
             ELSE Asset_from_xml_loop(Tail(elems), Append(assets, a))

\* Asset.from_xml(xml, ns), given the AssetList element
Asset_from_xml(e) ==
    LET found == findall(e, "Asset")
    IN  IF IsErr(found) THEN found ELSE Asset_from_xml_loop(found.v, <<>>)

\* Asset.size with the chunks' offsets summed in place of their sizes.
Asset_size_offsets(asset) ==
    sum([i \in 1..Len(asset.chunks.v) |-> asset.chunks.v[i].offset.v])

\* Asset.size
Asset_size(asset) ==
    sum([i \in 1..Len(asset.chunks.v) |-> asset.chunks.v[i].size.v])

\* Asset.file_paths
Asset_file_paths(asset) ==
    List([i \in 1..Len(asset.chunks.v) |-> asset.chunks.v[i].file_path])

(***************************************************************************)
(* assetmap.py: AssetMap                                                   *)
(***************************************************************************)
AssetMap(id, annotation_text, creator, volume_count, issue_date, issuer, assets) ==
    [t |-> "AssetMap", id |-> id, annotation_text |-> annotation_text,
     creator |-> creator, volume_count |-> volume_count,
     issue_date |-> issue_date, issuer |-> issuer, assets |-> assets]

\* AssetMap.from_xml(xml, ns)
AssetMap_from_xml(e) ==
    LET id == text(find(e, "Id"))
        annotation_text == xsd_optional_string(find(e, "AnnotationText"))
        creator == text(find(e, "Creator"))
        volume_count == int(text(find(e, "VolumeCount")))
        issue_date == xsd_datetime_to_datetime(text(find(e, "IssueDate")))
        issuer == text(find(e, "Issuer"))
        assets == Asset_from_xml(find(e, "AssetList"))
        err == FirstErr(<<id, annotation_text, creator, volume_count,
                          issue_date, issuer, assets>>)
    IN  IF IsErr(err) THEN err
        ELSE AssetMap(id, annotation_text, creator, volume_count, issue_date,
                      issuer, assets)

\* AssetMap.packing_lists
AssetMap_packing_lists(self) ==
    List(SelectSeq(self.assets.v, LAMBDA asset : asset.is_packing_list.v))

\* AssetMap.total_size
AssetMap_total_size(self) ==
    sum([i \in 1..Len(self.assets.v) |-> Asset_size(self.assets.v[i])])

\* get_asset with the scan keeping the last match instead of the first.
RECURSIVE get_asset_last(_, _)
get_asset_last(assets, id) ==
    IF Len(assets) = 0 THEN None
    ELSE IF eq(assets[Len(assets)].id, id) THEN assets[Len(assets)]
    ELSE get_asset_last(SubSeq(assets, 1, Len(assets) - 1), id)

\* for asset in assets: if asset.id == id: return asset; return None
RECURSIVE get_asset_loop(_, _)
get_asset_loop(assets, id) ==
    IF Len(assets) = 0 THEN None
    ELSE IF eq(Head(assets).id, id) THEN Head(assets)
    ELSE get_asset_loop(Tail(assets), id)

\* AssetMap.get_asset(id)
AssetMap_get_asset(self, id) == get_asset_loop(self.assets.v, id)

(***************************************************************************)
(* pkl.py: Asset                                                           *)
(***************************************************************************)
\* __post_init__ with the check admitting zero.
PklAsset_post_init_nonneg(self) ==
    IF ~(self.size.v >= 0) THEN Raise("ValueError") ELSE self

\* Asset.__post_init__: Size is an xs:PositiveInteger.
PklAsset_post_init(self) ==
    IF ~(self.size.v > 0) THEN Raise("ValueError") ELSE self

\* The generated __init__, which ends with __post_init__.
PklAsset(id, hash, hash_algorithm, size, type, original_file_name, annotation_text) ==
    PklAsset_post_init(
        [t |-> "PklAsset", hash |-> hash, size |-> size, type |-> type,
         hash_algorithm |-> hash_algorithm, id |-> id,
         original_file_name |-> original_file_name,
         annotation_text |-> annotation_text])

\* The algorithm name taken as split("#")[1], the piece after the first '#'.
PklAsset_hash_algorithm_first(e) ==
    LET pieces == split(attrib_get(find(e, "HashAlgorithm"), "Algorithm"), "#")
    IN  IF IsErr(pieces) THEN pieces
        ELSE IF Len(pieces.v) < 2 THEN Raise("IndexError") ELSE pieces.v[2]

\* xml.find("HashAlgorithm", ns).attrib.get("Algorithm").split("#")[-1]
PklAsset_hash_algorithm(e) ==
    LET pieces == split(attrib_get(find(e, "HashAlgorithm"), "Algorithm"), "#")
    IN  IF IsErr(pieces) THEN pieces ELSE pieces.v[Len(pieces.v)]

\* Asset.from_xml(xml, ns), given one Asset element
PklAsset_from_xml(e) ==
    LET id == UUID(text(find(e, "Id")))
        size == int(text(find(e, "Size")))
        type == text(find(e, "Type"))
        hash == text(find(e, "Hash"))
        hash_algorithm == PklAsset_hash_algorithm(e)
        original_file_name == xsd_optional_usertext(find(e, "OriginalFileName"))
        annotation_text == xsd_optional_usertext(find(e, "AnnotationText"))
        err == FirstErr(<<id, size, type, hash, hash_algorithm,
                          original_file_name, annotation_text>>)
    IN  IF IsErr(err) THEN err
        ELSE PklAsset(id, hash, hash_algorithm, size, type,
                      original_file_name, annotation_text)

(***************************************************************************)
(* pkl.py: Pkl                                                             *)
(***************************************************************************)
Pkl(id, issuer, creator, issue_date, assets, annotation_text, group_id, icon_id, security) ==
    [t |-> "Pkl", issuer |-> issuer, creator |-> creator,
     issue_date |-> issue_date, assets |-> assets, id |-> id,
     annotation_text |-> annotation_text, group_id |-> group_id,
     icon_id |-> icon_id, security |-> security]

\* xml.findall("AssetList/Asset", ns): the Asset children of every AssetList
\* child, in document order.
RECURSIVE concat(_)
concat(ss) == IF Len(ss) = 0 THEN <<>> ELSE Head(ss) \o concat(Tail(ss))
findall_AssetList_Asset(e) ==
    LET lists == findall(e, "AssetList")
    IN  IF IsErr(lists) THEN lists
        ELSE List(concat([i \in 1..Len(lists.v) |-> findall(lists.v[i], "Asset").v]))

\* [Asset.from_xml(asset, ns) for asset in ...]
RECURSIVE Pkl_assets_loop(_, _)
Pkl_assets_loop(elems, assets) ==
    IF Len(elems) = 0 THEN List(assets)
    ELSE LET a == PklAsset_from_xml(Head(elems))
         IN  IF IsErr(a) THEN a
             ELSE Pkl_assets_loop(Tail(elems), Append(assets, a))

\* uuid.UUID(xml.find(tag, ns)) if xml.find(tag, ns) is not None else None
Pkl_optional_uuid(e, tag) ==
    LET found == find(e, tag)
    IN  IF IsErr(found) THEN found
        ELSE IF ~IsNone(found) THEN UUID(found) ELSE None

\* Pkl.from_xml(xml, ns)
Pkl_from_xml(e) ==
    LET id == UUID(text(find(e, "Id")))
        issuer == UserText_from_xml(find(e, "Issuer"))
        creator == UserText_from_xml(find(e, "Creator"))
        issue_date == xsd_datetime_to_datetime(text(find(e, "IssueDate")))
        elems == findall_AssetList_Asset(e)
        assets == IF IsErr(elems) THEN elems ELSE Pkl_assets_loop(elems.v, <<>>)
        annotation_text == xsd_optional_usertext(find(e, "AnnotationText"))
        group_id == Pkl_optional_uuid(e, "GroupId")
        icon_id == Pkl_optional_uuid(e, "IconId")
        security == xsd_optional_security(find(e, "Signer"), find(e, "ds:Signature"))
        err == FirstErr(<<id, issuer, creator, issue_date, assets,
                          annotation_text, group_id, icon_id, security>>)
    IN  IF IsErr(err) THEN err
        ELSE Pkl(id, issuer, creator, issue_date, assets, annotation_text,
                 group_id, icon_id, security)

\* Pkl.get_asset(id)
Pkl_get_asset(self, id) == get_asset_loop(self.assets.v, id)

\* Pkl.total_size
Pkl_total_size(self) ==
    sum([i \in 1..Len(self.assets.v) |-> self.assets.v[i].size.v])

(***************************************************************************)
(* Input documents.                                                        *)
(***************************************************************************)
\* All sequences over S of length at most n.
SeqUpTo(S, n) == UNION {[1..k -> S] : k \in 0..n}

Leaf(tag, s) == Element(tag, Str(s), <<>>, <<>>)
Empty(tag) == Element(tag, None, <<>>, <<>>)

\* The children an optional element contributes: none, or the element.
Opt(tag, texts) == {<<>>} \cup {<<Leaf(tag, s)>> : s \in texts}

ChunkElems ==
    {Element("Chunk", None, <<>>, <<Leaf("Path", <<"a">>)>> \o vi \o off \o len) :
        vi \in Opt("VolumeIndex", {<<"2">>}),
        off \in Opt("Offset", {<<"7">>}),
        len \in Opt("Length", {<<"1","0","0">>, <<"2","5","0">>, <<"-","5">>})}
    \cup {Element("Chunk", None, <<>>, <<Leaf("Length", <<"1","0","0">>)>>),
          Element("Chunk", None, <<>>, <<Leaf("Path", <<"a">>), Leaf("Length", <<"1","x">>)>>),
          Element("Chunk", None, <<>>, <<Leaf("Path", <<"a">>), Empty("Offset")>>)}

ChunkLists ==
    {None} \cup {Element("ChunkList", None, <<>>, cs) : cs \in SeqUpTo(ChunkElems, MaxChunks)}

\* Asset Map assets: the identifier "a" over chunk lists that carry only a
\* Length, the identifier "b", and the special shapes (PackingList markers, no ChunkList,
\* a negative Length, no Id).
SizedChunk(len) ==
    Element("Chunk", None, <<>>, <<Leaf("Path", <<"a">>), Leaf("Length", len)>>)
SizedChunks == {SizedChunk(<<"1","0","0">>), SizedChunk(<<"2","5","0">>)}
SizedChunkLists ==
    {Element("ChunkList", None, <<>>, cs) : cs \in SeqUpTo(SizedChunks, MaxChunks)}

OneChunkList == Element("ChunkList", None, <<>>, <<SizedChunk(<<"1","0","0">>)>>)

MapAssetElems ==
    {Element("Asset", None, <<>>, <<Leaf("Id", <<"a">>), cl>>) : cl \in SizedChunkLists}
    \cup {Element("Asset", None, <<>>, <<Leaf("Id", <<"b">>), OneChunkList>>)}
    \cup {Element("Asset", None, <<>>, <<Leaf("Id", <<"a">>), pl, OneChunkList>>) :
            pl \in {Leaf("PackingList", <<"t","r","u","e">>),
                    Leaf("PackingList", <<"T","R","U","E">>),
                    Leaf("PackingList", <<"F","a","l","s","e">>),
                    Empty("PackingList")}}
    \cup {Element("Asset", None, <<>>, <<Leaf("Id", <<"b">>)>>),
          Element("Asset", None, <<>>,
                  <<Leaf("Id", <<"b">>),
                    Element("ChunkList", None, <<>>, <<SizedChunk(<<"-","5">>)>>)>>),
          Element("Asset", None, <<>>, <<OneChunkList>>)}

AssetLists ==
    {Element("AssetList", None, <<>>, as) : as \in SeqUpTo(MapAssetElems, MaxAssets)}

IssueDateText ==
    <<"2","0","2","0","-","0","1","-","0","2","T","0","3",":","0","4",":","0","5",
      "+","0","1",":","0","0">>

AssetMapHead ==
    <<Leaf("Id", <<"m">>), Leaf("Creator", <<"c">>), Leaf("VolumeCount", <<"1">>),
      Leaf("IssueDate", IssueDateText), Leaf("Issuer", <<"i">>)>>

\* Asset Map documents: a well-formed head over every asset list, and the
\* malformed heads over one asset list.
AssetMapDocs ==
    {Element("AssetMap", None, <<>>, AssetMapHead \o <<al>>) : al \in AssetLists}
    \cup {Element("AssetMap", None, <<>>, AssetMapHead),
          Element("AssetMap", None, <<>>,
                  <<Leaf("AnnotationText", <<"n">>)>> \o AssetMapHead
                  \o <<Element("AssetList", None, <<>>, <<>>)>>),
          Element("AssetMap", None, <<>>,
                  <<Leaf("Id", <<"m">>), Leaf("Creator", <<"c">>),
                    Leaf("VolumeCount", <<"1">>),
                    Leaf("IssueDate", <<"n","o","t","-","a","-","d","a","t","e">>),
                    Leaf("Issuer", <<"i">>),
                    Element("AssetList", None, <<>>, <<>>)>>)}

\* The identifiers get_asset is asked for.
MapQueries == {Str(<<"a">>), Str(<<"b">>)}

\* Packing List identifiers: urn:uuid: and 8-4-4-4-12 copies of one digit.
Rep(c, n) == [i \in 1..n |-> c]
UuidText(c) ==
    <<"u","r","n",":","u","u","i","d",":">> \o Rep(c, 8) \o <<"-">> \o Rep(c, 4)
    \o <<"-">> \o Rep(c, 4) \o <<"-">> \o Rep(c, 4) \o <<"-">> \o Rep(c, 12)

XmlDsigSha1 ==
    <<"h","t","t","p",":","/","/","w","w","w",".","w","3",".","o","r","g","/",
      "2","0","0","0","/","0","9","/","x","m","l","d","s","i","g","#","s","h","a","1">>

HashAlgorithm(alg) == Element("HashAlgorithm", None, <<<<"Algorithm", Str(alg)>>>>, <<>>)

PklAssetElem(id, size, alg, more) ==
    Element("Asset", None, <<>>,
            <<Leaf("Id", id), Leaf("Hash", <<"h">>), Leaf("Size", size),
              Leaf("Type", <<"t">>)>> \o alg \o more)

\* Asset elements handed to Asset.from_xml on their own.
PklAssetElems ==
    {PklAssetElem(id, size, alg, more) :
        id \in {UuidText("a"), UuidText("A"), <<"x","y","z">>},
        size \in {<<"1">>, <<"0">>, <<"-","5">>, <<"5","1","2">>},
        alg \in {<<HashAlgorithm(XmlDsigSha1)>>,
                 <<HashAlgorithm(<<"a","#","b","#","s","h","a","2","5","6">>)>>,
                 <<HashAlgorithm(<<"m","d","5">>)>>,
                 <<Element("HashAlgorithm", None, <<>>, <<>>)>>,
                 <<>>},
        more \in {<<>>, <<Leaf("OriginalFileName", <<"f">>)>>,
                  <<Empty("AnnotationText")>>}}

\* Asset elements of the Packing List documents.
PklDocAssetElems ==
    {PklAssetElem(id, size, <<HashAlgorithm(XmlDsigSha1)>>, <<>>) :
        id \in {UuidText("a"), UuidText("A"), UuidText("b")},
        size \in {<<"1">>, <<"0">>}}

PklHead ==
    <<Leaf("Id", UuidText("c")), Leaf("Issuer", <<"i">>),
      Element("Creator", Str(<<"c">>), <<<<"language", Str(<<"e","n">>)>>>>, <<>>),
      Leaf("IssueDate", IssueDateText)>>

\* Packing List documents: every asset list with and without a GroupId and
\* an IconId, and the documents without an AssetList, with a signer and a
\* signature, and with a malformed Id.
PklDocs ==
    {Element("PackingList", None, <<>>,
             PklHead \o <<Element("AssetList", None, <<>>, as)>> \o g \o i) :
        as \in SeqUpTo(PklDocAssetElems, MaxAssets),
        g \in Opt("GroupId", {UuidText("d")}),
        i \in Opt("IconId", {UuidText("e")})}
    \cup {Element("PackingList", None, <<>>, PklHead),
          Element("PackingList", None, <<>>,
                  PklHead \o <<Leaf("AnnotationText", <<"n">>), Leaf("Signer", <<"s">>),
                               Leaf("ds:Signature", <<"g">>)>>),
          Element("PackingList", None, <<>>, <<Leaf("Id", <<"x","y","z">>)>>)}

\* What Pkl.get_asset is asked for: identifier strings, and a UUID object.
PklQueries == {Str(UuidText("a")), Str(UuidText("b")), UUID(Str(UuidText("a")))}

(***************************************************************************)
(* The operations: one document is parsed, then the properties and methods *)
(* of the object it gave are called.                                       *)
(***************************************************************************)
Init ==
    /\ xml = None
    /\ obj = None
    /\ op = "init"
    /\ arg = None
    /\ ret = None

CallChunk_from_xml ==
    /\ op = "init"
    /\ \E e \in ChunkLists :
        /\ xml' = e
        /\ obj' = Chunk_from_xml(e)
        /\ op' = "Chunk.from_xml"
        /\ arg' = None
        /\ ret' = obj'

CallAssetMap_from_xml ==
    /\ op = "init"
    /\ \E e \in AssetMapDocs :
        /\ xml' = e
        /\ obj' = AssetMap_from_xml(e)
        /\ op' = "AssetMap.from_xml"
        /\ arg' = None
        /\ ret' = obj'

CallAssetMap_total_size ==
    /\ obj.t = "AssetMap"
    /\ op' = "AssetMap.total_size"
    /\ arg' = None
    /\ ret' = IntV(AssetMap_total_size(obj))
    /\ UNCHANGED <<xml, obj>>

CallAssetMap_packing_lists ==
    /\ obj.t = "AssetMap"
    /\ op' = "AssetMap.packing_lists"
    /\ arg' = None
    /\ ret' = AssetMap_packing_lists(obj)
    /\ UNCHANGED <<xml, obj>>

CallAssetMap_get_asset ==
    /\ obj.t = "AssetMap"
    /\ \E id \in MapQueries :
        /\ op' = "AssetMap.get_asset"
        /\ arg' = id
        /\ ret' = AssetMap_get_asset(obj, id)
    /\ UNCHANGED <<xml, obj>>

CallPklAsset_from_xml ==
    /\ op = "init"
    /\ \E e \in PklAssetElems :
        /\ xml' = e
        /\ obj' = PklAsset_from_xml(e)
        /\ op' = "pkl.Asset.from_xml"
        /\ arg' = None
        /\ ret' = obj'

CallPkl_from_xml ==
    /\ op = "init"
    /\ \E e \in PklDocs :
        /\ xml' = e
        /\ obj' = Pkl_from_xml(e)
        /\ op' = "Pkl.from_xml"
        /\ arg' = None
        /\ ret' = obj'

CallPkl_total_size ==
    /\ obj.t = "Pkl"
    /\ op' = "Pkl.total_size"
    /\ arg' = None
    /\ ret' = IntV(Pkl_total_size(obj))
    /\ UNCHANGED <<xml, obj>>

CallPkl_get_asset ==
    /\ obj.t = "Pkl"
    /\ \E id \in PklQueries :
        /\ op' = "Pkl.get_asset"
        /\ arg' = id
        /\ ret' = Pkl_get_asset(obj, id)
    /\ UNCHANGED <<xml, obj>>

Next ==
    \/ CallChunk_from_xml
    \/ CallAssetMap_from_xml
    \/ CallAssetMap_total_size
    \/ CallAssetMap_packing_lists
    \/ CallAssetMap_get_asset
    \/ CallPklAsset_from_xml
    \/ CallPkl_from_xml
    \/ CallPkl_total_size
    \/ CallPkl_get_asset

Spec == Init /\ [][Next]_vars

(***************************************************************************)
(* What the documents say, read off the XML without the parsers.           *)
(***************************************************************************)
Children(e, tag) == SelectSeq(e.children, LAMBDA c : c.tag = tag)
Has(e, tag) == Len(Children(e, tag)) > 0
Child(e, tag) == Head(Children(e, tag))
HasText(e, tag, s) == Has(e, tag) /\ Child(e, tag).text = Str(s)

\* The last from_xml call was given an element with this tag.
Parsed(tag) == xml.t = "Element" /\ xml.tag = tag

\* The integers the documents spell.
TextValue(s) ==
    CASE s = <<"1">> -> 1
      [] s = <<"0">> -> 0
      [] s = <<"2">> -> 2
      [] s = <<"7">> -> 7
      [] s = <<"1","0","0">> -> 100
      [] s = <<"2","5","0">> -> 250
      [] s = <<"5","1","2">> -> 512
      [] s = <<"-","5">> -> 0 - 5

\* The integer an optional child spells, or the default without the child.
Spelled(e, tag, default) ==
    IF Has(e, tag) THEN TextValue(Child(e, tag).text.v) ELSE default

RECURSIVE SumUpTo(_, _)
SumUpTo(f, n) == IF n = 0 THEN 0 ELSE SumUpTo(f, n - 1) + f[n]

\* The Asset elements of an Asset Map or Packing List document.
DocAssets(e) == IF Has(e, "AssetList") THEN Children(Child(e, "AssetList"), "Asset") ELSE <<>>
DocChunks(a) == IF Has(a, "ChunkList") THEN Children(Child(a, "ChunkList"), "Chunk") ELSE <<>>

\* An Asset Map document whose scalar fields are all present and well formed.
GoodMapHead ==
    /\ Parsed("AssetMap")
    /\ Len(xml.children) >= Len(AssetMapHead)
    /\ SubSeq(xml.children, 1, Len(AssetMapHead)) = AssetMapHead
    /\ Has(xml, "AssetList")

\* A Packing List document whose scalar fields are well formed and whose
\* assets are all valid.
GoodPklHead ==
    /\ Parsed("PackingList")
    /\ Len(xml.children) >= Len(PklHead)
    /\ SubSeq(xml.children, 1, Len(PklHead)) = PklHead
    /\ Has(xml, "AssetList")
    /\ \A i \in 1..Len(DocAssets(xml)) : HasText(DocAssets(xml)[i], "Size", <<"1">>)

(***************************************************************************)
(* C1: in every AssetMap that from_xml produced, each asset's size is the  *)
(* sum of the size fields of its chunks and total_size is the sum of the   *)
(* asset sizes; one asset with chunks of 100 and 250 gives 350 and 350,    *)
(* and no assets give 0.                                                   *)
(***************************************************************************)
C1_SizesAreSums ==
    (Parsed("AssetMap") /\ obj.t = "AssetMap") =>
        LET assets == obj.assets.v
            sizes == [i \in 1..Len(assets) |-> Asset_size(assets[i])]
            els == DocAssets(xml)
        IN  /\ \A i \in 1..Len(assets) :
                sizes[i] = SumUpTo([j \in 1..Len(assets[i].chunks.v) |->
                                        assets[i].chunks.v[j].size.v],
                                   Len(assets[i].chunks.v))
            /\ AssetMap_total_size(obj) = SumUpTo(sizes, Len(assets))
            /\ op = "AssetMap.total_size" => ret = IntV(SumUpTo(sizes, Len(assets)))
            /\ Len(assets) = 0 => AssetMap_total_size(obj) = 0
            /\ ( /\ Len(els) = 1
                 /\ Len(DocChunks(els[1])) = 2
                 /\ HasText(DocChunks(els[1])[1], "Length", <<"1","0","0">>)
                 /\ HasText(DocChunks(els[1])[2], "Length", <<"2","5","0">>) )
               => (sizes[1] = 350 /\ AssetMap_total_size(obj) = 350)

C1_Witness ==
    /\ Parsed("AssetMap")
    /\ op = "AssetMap.total_size"
    /\ Len(obj.assets.v) = 1
    /\ Len(obj.assets.v[1].chunks.v) = 2
    /\ obj.assets.v[1].chunks.v[1].size = IntV(100)
    /\ obj.assets.v[1].chunks.v[2].size = IntV(250)
    /\ ret = IntV(350)

(***************************************************************************)
(* C2: total_size of every AssetMap that from_xml returned is >= 0,        *)
(* whatever integer Length values the Chunk elements carry.                *)
(***************************************************************************)
C2_TotalSizeNonNegative ==
    (Parsed("AssetMap") /\ obj.t = "AssetMap") =>
        /\ AssetMap_total_size(obj) >= 0
        /\ op = "AssetMap.total_size" => ret.v >= 0

(***************************************************************************)
(* C3: AssetMap.get_asset(id) returns the first asset, in document order,  *)
(* whose id equals the query, also when several assets share the id, and   *)
(* None when no asset matches or there are no assets; it never returns an  *)
(* asset with another id.                                                  *)
(***************************************************************************)
C3_GetAssetFirstMatch ==
    (Parsed("AssetMap") /\ op = "AssetMap.get_asset") =>
        LET assets == obj.assets.v
            hits == {i \in 1..Len(assets) : assets[i].id = arg}
        IN  /\ hits = {} => ret = None
            /\ hits # {} =>
                /\ ret = assets[CHOOSE i \in hits : \A j \in hits : i <= j]
                /\ ret.id = arg
            /\ \A i \in 1..Len(assets) : assets[i].id = Child(DocAssets(xml)[i], "Id").text

C3_Witness ==
    /\ Parsed("AssetMap")
    /\ op = "AssetMap.get_asset"
    /\ Len(obj.assets.v) = 2
    /\ obj.assets.v[1].id = arg
    /\ obj.assets.v[2].id = arg
    /\ obj.assets.v[1] # obj.assets.v[2]
    /\ ret = obj.assets.v[1]

(***************************************************************************)
(* C4: on a PackingList that Pkl.from_xml produced, get_asset called with  *)
(* the identifier string of a contained asset returns the first asset with *)
(* that identifier; None is returned only when no contained asset has it.  *)
(***************************************************************************)
C4_PklGetAssetByString ==
    (Parsed("PackingList") /\ op = "Pkl.get_asset" /\ arg.t = "str") =>
        LET els == DocAssets(xml)
            hits == {i \in 1..Len(els) : Child(els[i], "Id").text = arg}
        IN  hits # {} =>
                ret = obj.assets.v[CHOOSE i \in hits : \A j \in hits : i <= j]

(***************************************************************************)
(* C5: a Packing List with an Asset whose Size is <= 0 ("0", "-5") fails   *)
(* to parse as a whole, whatever the other assets are; an Asset with Size  *)
(* 1 and its other fields valid parses.                                    *)
(***************************************************************************)
NonPositiveSize(a) == HasText(a, "Size", <<"0">>) \/ HasText(a, "Size", <<"-","5">>)

C5_NonPositiveSizeFails ==
    /\ Parsed("PackingList") =>
        /\ (\E i \in 1..Len(DocAssets(xml)) : NonPositiveSize(DocAssets(xml)[i]))
              => IsErr(obj)
        /\ (GoodPklHead /\ ~Has(xml, "GroupId") /\ ~Has(xml, "IconId"))
              => (obj.t = "Pkl" /\ Len(obj.assets.v) = Len(DocAssets(xml)))
    /\ Parsed("Asset") =>
        /\ NonPositiveSize(xml) => IsErr(obj)
        /\ ( /\ HasText(xml, "Size", <<"1">>)
             /\ ~HasText(xml, "Id", <<"x","y","z">>)
             /\ Has(xml, "HashAlgorithm")
             /\ Len(Child(xml, "HashAlgorithm").attrib) > 0
             /\ ~Has(xml, "AnnotationText") )
           => (obj.t = "PklAsset" /\ obj.size = IntV(1))

C5_Witness ==
    /\ Parsed("PackingList")
    /\ Len(DocAssets(xml)) = 2
    /\ HasText(DocAssets(xml)[1], "Size", <<"1">>)
    /\ HasText(DocAssets(xml)[2], "Size", <<"0">>)
    /\ ~Has(xml, "GroupId")
    /\ ~Has(xml, "IconId")
    /\ obj = Raise("ValueError")

(***************************************************************************)
(* C6: the Asset Map asset parser sets is_packing_list exactly when the    *)
(* Asset has a PackingList child whose text is "true" in any case; without *)
(* the child, or with any other content, a PackingList element with no     *)
(* text included, the asset is decoded with is_packing_list false and the  *)
(* parse does not fail.                                                    *)
(***************************************************************************)
MarkedTrue(a) ==
    HasText(a, "PackingList", <<"t","r","u","e">>)
    \/ HasText(a, "PackingList", <<"T","R","U","E">>)

C6_IsPackingList ==
    ( /\ GoodMapHead
      /\ \A i \in 1..Len(DocAssets(xml)) :
            Has(DocAssets(xml)[i], "Id") /\ Has(DocAssets(xml)[i], "ChunkList") )
    => /\ obj.t = "AssetMap"
       /\ \A i \in 1..Len(DocAssets(xml)) :
            obj.assets.v[i].is_packing_list = BoolV(MarkedTrue(DocAssets(xml)[i]))

(***************************************************************************)
(* C7: an Asset element of an Asset Map without a ChunkList child still    *)
(* gives an asset, with no chunks and size 0, and the document parses.     *)
(***************************************************************************)
C7_NoChunkList ==
    ( /\ GoodMapHead
      /\ \A i \in 1..Len(DocAssets(xml)) :
            /\ Has(DocAssets(xml)[i], "Id")
            /\ Has(DocAssets(xml)[i], "PackingList")
                  => Child(DocAssets(xml)[i], "PackingList").text # None )
    => /\ obj.t = "AssetMap"
       /\ \A i \in 1..Len(DocAssets(xml)) :
            ~Has(DocAssets(xml)[i], "ChunkList") =>
                /\ obj.assets.v[i].chunks = List(<<>>)
                /\ Asset_size(obj.assets.v[i]) = 0

(***************************************************************************)
(* C8: Pkl.from_xml decodes GroupId and IconId independently: present with *)
(* a valid UUID text the field is that UUID, absent the field is None, and *)
(* a well-formed GroupId or IconId never makes the parse fail.             *)
(***************************************************************************)
C8_GroupIdIconId ==
    GoodPklHead =>
        /\ obj.t = "Pkl"
        /\ obj.group_id = IF Has(xml, "GroupId") THEN UUID(Child(xml, "GroupId").text)
                          ELSE None
        /\ obj.icon_id = IF Has(xml, "IconId") THEN UUID(Child(xml, "IconId").text)
                         ELSE None

(***************************************************************************)
(* C9: Chunk.from_xml gives, for every Chunk element and in document       *)
(* order, volume_index 1 without a VolumeIndex, offset 0 without an Offset *)
(* and size 0 without a Length, each independently of the others, and the  *)
(* parsed integer of an element that is present.                           *)
(***************************************************************************)
C9_ChunkDefaults ==
    (op = "Chunk.from_xml" /\ obj.t = "list") =>
        LET els == Children(xml, "Chunk")
        IN  /\ Len(obj.v) = Len(els)
            /\ \A i \in 1..Len(els) :
                /\ obj.v[i].file_path = Child(els[i], "Path").text
                /\ obj.v[i].volume_index = IntV(Spelled(els[i], "VolumeIndex", 1))
                /\ obj.v[i].offset = IntV(Spelled(els[i], "Offset", 0))
                /\ obj.v[i].size = IntV(Spelled(els[i], "Length", 0))

C9_Witness ==
    /\ op = "Chunk.from_xml"
    /\ obj.t = "list"
    /\ Len(obj.v) = 2
    /\ Len(Children(xml, "Chunk")[1].children) = 1
    /\ obj.v[1] = Chunk(Str(<<"a">>), IntV(1), IntV(0), IntV(0))
    /\ obj.v[2] = Chunk(Str(<<"a">>), IntV(2), IntV(7), IntV(250))

(***************************************************************************)
(* C10: the Packing List asset parser sets hash_algorithm to what follows  *)
(* the final '#' of the HashAlgorithm element's Algorithm attribute        *)
(* (".../xmldsig#sha1" gives "sha1"; with several '#', the part after the  *)
(* last), and without the attribute the parse fails.                       *)
(***************************************************************************)
C10_HashAlgorithm ==
    (Parsed("Asset") /\ op = "pkl.Asset.from_xml") =>
        /\ (Has(xml, "HashAlgorithm") /\ Len(Child(xml, "HashAlgorithm").attrib) = 0)
              => IsErr(obj)
        /\ obj.t = "PklAsset" =>
              LET a == Child(xml, "HashAlgorithm").attrib[1][2].v
                  h == obj.hash_algorithm.v
                  n == Len(a) - Len(h)
              IN  /\ \A i \in 1..Len(h) : h[i] # "#"
                  /\ n >= 0
                  /\ SubSeq(a, n + 1, Len(a)) = h
                  /\ (\E i \in 1..Len(a) : a[i] = "#") => a[n] = "#"
                  /\ a = XmlDsigSha1 => h = <<"s","h","a","1">>

C10_Witness ==
    /\ Parsed("Asset")
    /\ op = "pkl.Asset.from_xml"
    /\ obj.t = "PklAsset"
    /\ Child(xml, "HashAlgorithm").attrib[1][2] = Str(<<"a","#","b","#","s","h","a","2","5","6">>)
    /\ obj.hash_algorithm = Str(<<"s","h","a","2","5","6">>)

====
